---- MODULE Spec2Model ----
(***************************************************************************)
(* Model of src/boot/util/pb12.c: the PB12 encoder used to pack the boot   *)
(* ROM graphics.  main() reads at most sizeof(source) bytes, drops the     *)
(* trailing zero bytes, and encodes every remaining byte as a repeat of    *)
(* one of the two previous bytes, as one of four bit-shift predictions of  *)
(* the previous byte, or as a literal.  Control bits are packed MSB first  *)
(* into control bytes; each control byte is followed by the literals that  *)
(* were queued while it was being filled, and the stream ends with 0x01.   *)
(*                                                                         *)
(* C `unsigned` values are modelled by integers.  The "not set" value of   *)
(* prev[] is (unsigned)-1; it is written -1 here: it is congruent to the   *)
(* C value modulo 2^32, it differs from every byte, and its conversion to  *)
(* uint8_t, (-1) % 256 = 255, is the one C performs.  control never holds  *)
(* more than 10 bits, so its 32-bit width is never reached.                *)
(***************************************************************************)
EXTENDS Integers, Sequences, FiniteSets, TLC

\* sizeof(source): 0x4000 in the program, scaled down for model checking.
SourceCap == 4

\* Byte values the input files are built from: zero, the byte the unset
\* predictor slot truncates to (255) and a prediction of it (254), and
\* values that hit each of the four predictions of one another
\* (1->3: options[0], 3->2: options[1], 2->3: options[2], 3->1: options[3]).
Bytes == {0, 1, 2, 3, 254, 255}

\* How many bytes a file holds beyond the first SourceCap.  The program never
\* reads them, so only their number is kept.
ExcessValues == {0, 1}

\* argc values the program is started with.
ArgcValues == {1, 2, 3}

\* the leading bytes of a file, as many as the buffer can take
Files == UNION {[1..n -> Bytes] : n \in 0..SourceCap}

\* unsigned prev[2] = {-1, -1}
Unset == 0 - 1

\* uint8_t literals[8]
LiteralsCap == 8

VARIABLES
    argc,       \* number of command line words, program name included
    inputOk,    \* fopen(argv[1], "rb") succeeds
    outputOk,   \* fopen(argv[2], "wb") succeeds
    file,       \* the first bytes of the input file, at most SourceCap
    excess,     \* the number of bytes the input file holds after those
    pc,         \* position in main
    status,     \* how the process ended, "running" until then
    outOpened,  \* the output path has been created or truncated
    out,        \* the bytes written to the output stream
    source,     \* the bytes fread stored in source[]
    size,
    pos,
    literals,   \* literals[0 .. literals_size-1]
    bits,
    control,
    prev,
    hist,       \* history: one record per byte run through the classifier
    ctls        \* history: every value outctl was given at line 128

vars == <<argc, inputOk, outputOk, file, excess, pc, status, outOpened, out, source,
          size, pos, literals, bits, control, prev, hist, ctls>>

env == <<argc, inputOk, outputOk, file, excess>>

\* the size of the input file
FileLen == Len(file) + excess
enc == <<literals, bits, control, prev, hist, ctls>>

----------------------------------------------------------------------------
(* Bit operations of C on non-negative integers *)

RECURSIVE BitAnd(_, _)
BitAnd(a, b) ==
    IF a = 0 \/ b = 0 THEN 0
    ELSE (a % 2) * (b % 2) + 2 * BitAnd(a \div 2, b \div 2)

RECURSIVE BitOr(_, _)
BitOr(a, b) ==
    IF a = 0 THEN b
    ELSE IF b = 0 THEN a
    ELSE (IF a % 2 = 1 \/ b % 2 = 1 THEN 1 ELSE 0) + 2 * BitOr(a \div 2, b \div 2)

\* conversion to uint8_t
ToU8(x) == x % 256

\* lines 10-13: the four values opts stores for one byte
Options(byte) ==
    [i \in 0..3 |->
        CASE i = 0 -> ToU8(BitOr(byte, BitAnd(byte * 2, 255)))
          [] i = 1 -> ToU8(BitAnd(byte, byte * 2))
          [] i = 2 -> ToU8(BitOr(byte, BitAnd(byte \div 2, 255)))
          [] i = 3 -> ToU8(BitAnd(byte, byte \div 2))]

\* Options for every uint8_t value, computed once
OptionsOf == [b \in 0..255 |-> Options(b)]

\* opts(byte, options): options[0..3] for the uint8_t parameter byte
opts(byte) == OptionsOf[byte]

\* (variant: the loop runs to its end, so the last matching i is kept)
FindOptionLast(byte, options) ==
    IF \E i \in 0..3 : options[i] = byte
    THEN CHOOSE i \in 0..3 : options[i] = byte /\ \A j \in (i + 1)..3 : options[j] # byte
    ELSE 4

\* the for loop of lines 104-117: the first i with options[i] == byte, 4 if none
FindOption(byte, options) ==
    IF \E i \in 0..3 : options[i] = byte
    THEN CHOOSE i \in 0..3 : options[i] = byte /\ \A j \in 0..(i - 1) : options[j] # byte
    ELSE 4

\* line 86
IsRepeat(byte, pv) == byte = pv[0] \/ byte = pv[1]

\* (variant: the low bit tells a match with prev[0] instead of prev[1])
RepeatControlPrev0(byte, pv, ctl) ==
    ((ctl * 2 + 1) * 2) + (IF byte = pv[0] THEN 1 ELSE 0)

\* lines 89-95: control <<= 1; control |= 1; control <<= 1; if (byte == prev[1]) control |= 1
RepeatControl(byte, pv, ctl) ==
    ((ctl * 2 + 1) * 2) + (IF byte = pv[1] THEN 1 ELSE 0)

\* lines 100, 109-113: control <<= 2; control |= 1; control <<= 2; control |= i
ModifyControl(ctl, i) == ((ctl * 4 + 1) * 4) + i

\* lines 100, 118-121: control <<= 2, nothing set
LiteralControl(ctl) == ctl * 4

\* (variant: prev[1] is assigned first, so both slots get the byte)
UpdatePrevSwapped(pv, byte) == [pv EXCEPT ![0] = byte, ![1] = byte]

\* (variant: the assignment to prev[1] is missing)
UpdatePrevKeepsPrev1(pv, byte) == [pv EXCEPT ![0] = pv[1]]

\* lines 124-125: prev[0] = prev[1]; prev[1] = byte
UpdatePrev(pv, byte) == [pv EXCEPT ![0] = pv[1], ![1] = byte]

\* (variant: an if in place of the while, one zero byte dropped at most)
TrimOnce(src, n) == IF n > 0 /\ src[n] = 0 THEN n - 1 ELSE n

\* (variant: the loop tests size > 1, so the first byte is always kept)
RECURSIVE TrimKeepsFirst(_, _)
TrimKeepsFirst(src, n) ==
    IF n > 1 /\ src[n] = 0 THEN TrimKeepsFirst(src, n - 1) ELSE n

\* the while loop of lines 62-65
RECURSIVE TrimSize(_, _)
TrimSize(src, n) ==
    IF n > 0 /\ src[n] = 0 THEN TrimSize(src, n - 1) ELSE n

\* fread(source, 1, sizeof(source), input): the number of bytes read from a
\* file of n bytes, at most sizeof(source)
Fread(n) == IF n < SourceCap THEN n ELSE SourceCap

\* (variant: the low 8 bits are taken, the shift by bits - 8 is missing)
OutctlLowBits(ctl, nbits) == ToU8(ctl)

\* line 128
Outctl(ctl, nbits) == ToU8(ctl \div (2 ^ (nbits - 8)))

----------------------------------------------------------------------------
Init ==
    /\ argc \in ArgcValues
    /\ inputOk \in BOOLEAN
    /\ outputOk \in BOOLEAN
    /\ file \in Files
    /\ excess \in ExcessValues
    /\ (excess > 0 => Len(file) = SourceCap)
    \* without an input path, or with one that cannot be opened, there are
    \* no file contents and no output path for the program to see
    /\ (argc < 3 => inputOk /\ outputOk /\ file = <<>> /\ excess = 0)
    /\ (~inputOk => outputOk /\ file = <<>> /\ excess = 0)
    /\ pc = "args"
    /\ status = "running"
    /\ outOpened = FALSE
    /\ out = <<>>
    /\ source = <<>>
    /\ size = 0
    /\ pos = 0
    /\ literals = <<>>
    /\ bits = 0
    /\ control = 0
    /\ prev = [i \in {0, 1} |-> Unset]
    /\ hist = <<>>
    /\ ctls = <<>>

\* lines 33-37
CheckArgs ==
    /\ pc = "args"
    /\ IF argc < 3
       THEN pc' = "exit" /\ status' = "EXIT_FAILURE"
       ELSE pc' = "open_input" /\ status' = status
    /\ UNCHANGED <<env, outOpened, out, source, size, pos, enc>>

\* (variant: the return after the failed fopen is missing)
OpenInputNoReturn ==
    /\ pc = "open_input"
    /\ pc' = "open_output"
    /\ UNCHANGED <<env, status, outOpened, out, source, size, pos, enc>>

\* lines 39-44
OpenInput ==
    /\ pc = "open_input"
    /\ IF ~inputOk
       THEN pc' = "exit" /\ status' = "EXIT_FAILURE"
       ELSE pc' = "open_output" /\ status' = status
    /\ UNCHANGED <<env, outOpened, out, source, size, pos, enc>>

\* lines 46-52
OpenOutput ==
    /\ pc = "open_output"
    /\ IF ~outputOk
       THEN pc' = "exit" /\ status' = "EXIT_FAILURE" /\ outOpened' = outOpened
       ELSE pc' = "read" /\ status' = status /\ outOpened' = TRUE
    /\ UNCHANGED <<env, out, source, size, pos, enc>>

\* lines 54-58
ReadInput ==
    /\ pc = "read"
    /\ source' = SubSeq(file, 1, Fread(FileLen))
    /\ size' = Fread(FileLen)
    /\ pos' = 0
    /\ IF Fread(FileLen) <= SourceCap
       THEN pc' = "trim" /\ status' = status
       ELSE pc' = "exit" /\ status' = "SIGABRT"
    /\ UNCHANGED <<env, outOpened, out, enc>>

\* lines 60-71
TrimZeroes ==
    /\ pc = "trim"
    /\ size' = TrimSize(source, size)
    /\ literals' = <<>>
    /\ bits' = 0
    /\ control' = 0
    /\ prev' = [i \in {0, 1} |-> Unset]
    /\ pc' = "loop"
    /\ UNCHANGED <<env, status, outOpened, out, source, pos, hist, ctls>>

\* lines 76-80: break
LoopBreak ==
    /\ pc = "loop"
    /\ pos = size
    /\ bits = 0
    /\ pc' = "end"
    /\ UNCHANGED <<env, status, outOpened, out, source, size, pos, enc>>

\* lines 75-125
ClassifyByte ==
    /\ pc = "loop"
    /\ ~(pos = size /\ bits = 0)
    /\ LET byte == IF pos = size THEN 0 ELSE source[pos + 1]
           i == FindOption(byte, opts(ToU8(prev[1])))
           nbits == IF IsRepeat(byte, prev) THEN bits + 2
                    ELSE IF i < 4 THEN bits + 4 ELSE bits + 2
           nctl == IF IsRepeat(byte, prev) THEN RepeatControl(byte, prev, control)
                   ELSE IF i < 4 THEN ModifyControl(control, i)
                   ELSE LiteralControl(control)
           nlit == IF ~IsRepeat(byte, prev) /\ i = 4
                   THEN Append(literals, byte) ELSE literals
       IN /\ pos' = IF pos = size THEN pos ELSE pos + 1
          /\ bits' = nbits
          /\ control' = nctl
          /\ literals' = nlit
          /\ prev' = UpdatePrev(prev, byte)
          /\ hist' = Append(hist, [byte |-> byte,
                                   real |-> pos # size,
                                   p0 |-> prev[0],
                                   p1 |-> prev[1],
                                   nbits |-> nbits - bits,
                                   code |-> nctl - control * (2 ^ (nbits - bits)),
                                   queued |-> Len(nlit) - Len(literals)])
    /\ pc' = "check"
    /\ UNCHANGED <<env, status, outOpened, out, source, size, ctls>>

\* line 126, condition false
NoFlush ==
    /\ pc = "check"
    /\ bits < 8
    /\ pc' = "loop"
    /\ UNCHANGED <<env, status, outOpened, out, source, size, pos, enc>>

\* (variant: literals_size is not reset after the flush)
FlushKeepsLiterals ==
    /\ pc = "check"
    /\ bits >= 8
    /\ Outctl(control, bits) # 1
    /\ ctls' = Append(ctls, Outctl(control, bits))
    /\ out' = out \o <<Outctl(control, bits)>> \o literals
    /\ bits' = bits - 8
    /\ control' = control % (2 ^ (bits - 8))
    /\ pc' = "loop"
    /\ UNCHANGED <<env, status, outOpened, source, size, pos, prev, hist, literals>>

\* (variant: control is not masked to the bits that remain)
FlushKeepsEmittedBits ==
    /\ pc = "check"
    /\ bits >= 8
    /\ Outctl(control, bits) # 1
    /\ ctls' = Append(ctls, Outctl(control, bits))
    /\ out' = out \o <<Outctl(control, bits)>> \o literals
    /\ bits' = bits - 8
    /\ literals' = <<>>
    /\ pc' = "loop"
    /\ UNCHANGED <<env, status, outOpened, source, size, pos, prev, hist, control>>

\* lines 126-135, both writes succeed
Flush ==
    /\ pc = "check"
    /\ bits >= 8
    /\ Outctl(control, bits) # 1
    /\ ctls' = Append(ctls, Outctl(control, bits))
    /\ out' = out \o <<Outctl(control, bits)>> \o literals
    /\ bits' = bits - 8
    /\ control' = control % (2 ^ (bits - 8))
    /\ literals' = <<>>
    /\ pc' = "loop"
    /\ UNCHANGED <<env, status, outOpened, source, size, pos, prev, hist>>

\* lines 128-129, assertion fails: abort()
AssertOutctlFails ==
    /\ pc = "check"
    /\ bits >= 8
    /\ Outctl(control, bits) = 1
    /\ ctls' = Append(ctls, Outctl(control, bits))
    /\ pc' = "exit"
    /\ status' = "SIGABRT"
    /\ UNCHANGED <<env, outOpened, out, source, size, pos, literals, bits,
                   control, prev, hist>>

\* lines 128-131 with write_all (16-29) failing after w bytes of the record
FlushWriteFails ==
    /\ pc = "check"
    /\ bits >= 8
    /\ Outctl(control, bits) # 1
    /\ ctls' = Append(ctls, Outctl(control, bits))
    /\ \E w \in 0..Len(literals) :
          out' = out \o SubSeq(<<Outctl(control, bits)>> \o literals, 1, w)
    /\ pc' = "exit"
    /\ status' = "EXIT_FAILURE"
    /\ UNCHANGED <<env, outOpened, source, size, pos, literals, bits, control,
                   prev, hist>>

\* lines 137-141
WriteEnd ==
    /\ pc = "end"
    /\ out' = Append(out, 1)
    /\ pc' = "done"
    /\ status' = "EXIT_SUCCESS"
    /\ UNCHANGED <<env, outOpened, source, size, pos, enc>>

\* lines 137-138 with write_all (16-29) failing
WriteEndFails ==
    /\ pc = "end"
    /\ pc' = "exit"
    /\ status' = "EXIT_FAILURE"
    /\ UNCHANGED <<env, outOpened, out, source, size, pos, enc>>

Next ==
    \/ CheckArgs
    \/ OpenInput
    \/ OpenOutput
    \/ ReadInput
    \/ TrimZeroes
    \/ LoopBreak
    \/ ClassifyByte
    \/ NoFlush
    \/ Flush
    \/ AssertOutctlFails
    \/ FlushWriteFails
    \/ WriteEnd
    \/ WriteEndFails

Spec == Init /\ [][Next]_vars

\* main is straight-line code: a step that can be taken is taken
FairSpec == Spec /\ WF_vars(Next)

TypeOK ==
    /\ pc \in {"args", "open_input", "open_output", "read", "trim", "loop",
               "check", "end", "done", "exit"}
    /\ status \in {"running", "EXIT_SUCCESS", "EXIT_FAILURE", "SIGABRT"}
    /\ size \in 0..SourceCap
    /\ pos \in 0..size
    /\ bits \in 0..10

----------------------------------------------------------------------------
(* Helpers for stating properties of a run *)

IsAllZero(f) == \A k \in 1..Len(f) : f[k] = 0

\* the encoding pass was entered (line 67 reached)
Encoding == pc \in {"loop", "check", "end", "done"} \/ hist # <<>> \/ ctls # <<>>

\* a write to the output failed (write_all called exit)
WriteFailed == status = "EXIT_FAILURE" /\ outOpened

LastEvent == hist[Len(hist)]

\* an event's code word, as appended to control
IsLiteralCode(e) == e.nbits = 2 /\ e.code = 0
IsRepeatCode(e) == e.nbits = 2 /\ e.code \in {2, 3}
IsModifyCode(e) == e.nbits = 4 /\ e.code \in 4..7

----------------------------------------------------------------------------
\* C1: at every flush, in the real input and in the implicit-zero tail, the
\* control byte taken from the top 8 pending bits differs from 0x01: the
\* assertion of line 129 never fails and the encoder never aborts on it.
C1_ControlByteNeverReserved ==
    /\ \A k \in 1..Len(ctls) : ctls[k] # 1
    /\ status # "SIGABRT"

\* C2: encoding the one-byte input [0xFF] yields a control byte whose first
\* code is the literal code 00, then the literal 0xFF, then the terminator.
C2_SingleFFIsLiteral ==
    (file = <<255>> /\ pc = "done") =>
        /\ IsLiteralCode(hist[1]) /\ hist[1].queued = 1
        /\ Len(out) = 3
        /\ out[1] \div 64 = 0
        /\ out[2] = 255
        /\ out[3] = 1

\* C3: for the empty input and for every all-zero input the trimmed sequence
\* is empty, no byte (real or implicit) is processed, nothing is flushed and
\* the complete output is the single byte 0x01.
C3_ZeroInputOnlyTerminator ==
    IsAllZero(file) =>
        /\ (Encoding => size = 0)
        /\ hist = <<>>
        /\ ctls = <<>>
        /\ pc # "check"
        /\ out = IF pc = "done" THEN <<1>> ELSE <<>>

C3_Witness ==
    /\ IsAllZero(file) /\ Len(file) >= 2
    /\ pc = "done" /\ status = "EXIT_SUCCESS" /\ out = <<1>>

----------------------------------------------------------------------------
(* The output as a sequence of records, derived from the history *)

\* number of control bits appended by the events before event k
RECURSIVE BitsBefore(_, _)
BitsBefore(h, k) == IF k <= 1 THEN 0 ELSE BitsBefore(h, k - 1) + h[k - 1].nbits

\* the control byte (1, 2, ...) in which the code word of event k starts
RecordOf(h, k) == (BitsBefore(h, k) \div 8) + 1

\* the bytes of the literal events among 1..k whose code lies in control byte r
RECURSIVE LiteralsOfRecord(_, _, _)
LiteralsOfRecord(h, r, k) ==
    IF k = 0 THEN <<>>
    ELSE IF IsLiteralCode(h[k]) /\ RecordOf(h, k) = r
         THEN Append(LiteralsOfRecord(h, r, k - 1), h[k].byte)
         ELSE LiteralsOfRecord(h, r, k - 1)

\* records 1..n: each control byte followed by the literals of its events
RECURSIVE Records(_, _, _)
Records(h, c, n) ==
    IF n = 0 THEN <<>>
    ELSE Records(h, c, n - 1) \o <<c[n]>> \o LiteralsOfRecord(h, n, Len(h))

\* control bytes completed and written so far
NumFlushed == (BitsBefore(hist, Len(hist) + 1) - bits) \div 8

\* C4: the output is a sequence of records followed by the terminator: each
\* control byte is followed by exactly the bytes classified as literal while
\* it was filled, in classification order, each equal to the input byte that
\* caused it; no literal is lost, duplicated or moved to another record.
C4_RecordsOfLiterals ==
    ~WriteFailed =>
        /\ out = Records(hist, ctls, NumFlushed)
                    \o (IF pc = "done" THEN <<1>> ELSE <<>>)
        /\ literals = LiteralsOfRecord(hist, NumFlushed + 1, Len(hist))
        /\ \A k \in 1..Len(hist) :
              /\ hist[k].byte = (IF k <= size THEN source[k] ELSE 0)
              /\ hist[k].queued = (IF IsLiteralCode(hist[k]) THEN 1 ELSE 0)
        /\ (pc = "done" => NumFlushed * 8 = BitsBefore(hist, Len(hist) + 1))

C4_Witness ==
    /\ pc = "done"
    /\ NumFlushed = 2
    /\ Len(LiteralsOfRecord(hist, 1, Len(hist))) >= 2
    /\ Len(LiteralsOfRecord(hist, 2, Len(hist))) >= 1
    /\ Len(out) >= 6

----------------------------------------------------------------------------
\* C5: a processed byte equal to prev0 or prev1 is encoded as a 2-bit repeat
\* code and queues no literal: 11 when it equals prev1 (also when it equals
\* both slots), 10 when it equals prev0 only; when the first three processed
\* bytes are A, A, A the second and the third are repeat codes.
C5_RepeatCodes ==
    /\ pc = "check" =>
          LET e == LastEvent
          IN (e.byte = e.p0 \/ e.byte = e.p1) =>
                /\ e.nbits = 2
                /\ e.queued = 0
                /\ e.code = (IF e.byte = e.p1 THEN 3 ELSE 2)
                /\ bits \in {2, 4, 6, 8, 10}
                /\ control % 4 = e.code
    /\ (Len(hist) >= 3 /\ hist[1].byte = hist[2].byte /\ hist[2].byte = hist[3].byte) =>
          /\ IsRepeatCode(hist[2]) /\ hist[2].queued = 0
          /\ IsRepeatCode(hist[3]) /\ hist[3].queued = 0

C5_Witness ==
    /\ pc = "check"
    /\ Len(hist) = 3
    /\ hist[1].byte = hist[2].byte /\ hist[2].byte = hist[3].byte
    /\ LastEvent.byte = LastEvent.p0 /\ LastEvent.byte = LastEvent.p1
    /\ LastEvent.code = 3

----------------------------------------------------------------------------
(* The four predictions as the formulas on bits *)

Bit(x, j) == (x \div (2 ^ j)) % 2
ShlBit(b, j) == IF j = 0 THEN 0 ELSE Bit(b, j - 1)
ShrBit(b, j) == IF j = 7 THEN 0 ELSE Bit(b, j + 1)
OrBit(x, y) == IF x + y > 0 THEN 1 ELSE 0

PredictionBit(b, i, j) ==
    CASE i = 0 -> OrBit(Bit(b, j), ShlBit(b, j))
      [] i = 1 -> Bit(b, j) * ShlBit(b, j)
      [] i = 2 -> OrBit(Bit(b, j), ShrBit(b, j))
      [] i = 3 -> Bit(b, j) * ShrBit(b, j)

RECURSIVE PredictionUpTo(_, _, _)
PredictionUpTo(b, i, j) ==
    IF j < 0 THEN 0
    ELSE PredictionBit(b, i, j) * (2 ^ j) + PredictionUpTo(b, i, j - 1)

PredictionOf == [b \in 0..255 |-> [i \in 0..3 |-> PredictionUpTo(b, i, 7)]]

Prediction(b, i) == PredictionOf[b][i]

\* C6: a processed byte that differs from both predictor slots and equals at
\* least one of the four predictions of prev1 is encoded as the 4-bit code
\* 01 i1 i0 with i the lowest matching index, adds 4 to the pending bits and
\* queues no literal; a byte equal to prev1|((prev1<<1)&0xFF) gets index 0.
C6_PredictedTransform ==
    pc = "check" =>
        LET e == LastEvent
            b == e.p1 % 256
            M == {i \in 0..3 : Prediction(b, i) = e.byte}
        IN (e.byte # e.p0 /\ e.byte # e.p1 /\ M # {}) =>
              /\ e.nbits = 4
              /\ e.queued = 0
              /\ \E i \in M : (\A j \in M : i <= j) /\ e.code = 4 + i
              /\ (0 \in M => e.code = 4)
              /\ control % 16 = e.code

C6_Witness ==
    /\ pc = "check"
    /\ LastEvent.p1 \in 0..255
    /\ LastEvent.byte \notin {LastEvent.p0, LastEvent.p1}
    /\ LastEvent.byte = Prediction(LastEvent.p1, 0)
    /\ LastEvent.nbits = 4 /\ LastEvent.code = 4

----------------------------------------------------------------------------
\* C7: the encoding pass terminates for every input: the loop stops only with
\* exactly zero pending bits after the trimmed input is exhausted, and then
\* the terminator 0x01 is appended once as the final byte of the output.
C7_StopsWithTerminator ==
    (Encoding /\ pc \in {"done", "exit"} /\ ~WriteFailed) =>
        /\ pos = size
        /\ bits = 0
        /\ status = "EXIT_SUCCESS"
        /\ out # <<>> /\ out[Len(out)] = 1

----------------------------------------------------------------------------
\* the while loop of lines 62-65 has been left
PastTrim == pc \in {"loop", "check", "end", "done"} \/ (pc = "exit" /\ outOpened)

\* C8: the trimmer returns the longest prefix of the read bytes whose last
\* byte is non-zero (empty when all are zero); it changes only the length,
\* is a no-op without a trailing zero, and is idempotent.
C8_TrimLongestNonZeroPrefix ==
    PastTrim =>
        /\ size \in 0..Len(source)
        /\ (size > 0 => source[size] # 0)
        /\ \A n \in (size + 1)..Len(source) : source[n] = 0
        /\ source = SubSeq(file, 1, Len(source))
        /\ Len(source) = (IF FileLen < SourceCap THEN FileLen ELSE SourceCap)
        /\ ((source # <<>> /\ source[Len(source)] # 0) => size = Len(source))
        /\ TrimSize(SubSeq(source, 1, size), size) = size

C8_Witness ==
    /\ PastTrim
    /\ size >= 2
    /\ Len(source) - size >= 2
    /\ \E n \in 1..size : source[n] = 0

----------------------------------------------------------------------------
\* C9: when the input file holds more bytes than the buffer, the run ends in
\* a fatal abort through the size assertion: the input is not encoded and no
\* terminated output is produced for it.
C9_OversizeAborts ==
    FileLen > SourceCap =>
        /\ pc \notin {"trim", "loop", "check", "end", "done"}
        /\ hist = <<>>
        /\ out = <<>>

----------------------------------------------------------------------------
\* C10: with fewer than 2 positional arguments, or an input path that cannot
\* be opened, the process exits with a failure status without opening the
\* output path and without writing a byte; the output is opened only after
\* the argument check and the input open have both succeeded.
C10_NoOutputOnEarlyFailure ==
    /\ (argc < 3 \/ ~inputOk) =>
          /\ ~outOpened
          /\ out = <<>>
          /\ pc \in {"args", "open_input", "exit"}
          /\ (pc = "exit" => status = "EXIT_FAILURE")
          /\ (pc # "exit" => status = "running")
    /\ outOpened =>
          /\ argc >= 3 /\ inputOk
          /\ pc \notin {"args", "open_input", "open_output"}

C10_Witness ==
    /\ argc >= 3 /\ ~inputOk
    /\ pc = "exit" /\ status = "EXIT_FAILURE"
    /\ ~outOpened /\ out = <<>>

----------------------------------------------------------------------------
(* The control bits as a bit sequence, most significant bit first *)

\* the low w bits of v, most significant first
RECURSIVE ToBits(_, _)
ToBits(v, w) == IF w = 0 THEN <<>> ELSE Append(ToBits(v \div 2, w - 1), v % 2)

\* the code word of the encoding table for an event, from the byte and the
\* predictor slots it met: 11, 10, 01 i1 i0 or 00
CodeWord(e) ==
    LET M == {i \in 0..3 : Prediction(e.p1 % 256, i) = e.byte}
    IN IF e.byte = e.p1 THEN <<1, 1>>
       ELSE IF e.byte = e.p0 THEN <<1, 0>>
       ELSE IF M # {}
            THEN <<0, 1>> \o ToBits(CHOOSE i \in M : \A j \in M : i <= j, 2)
            ELSE <<0, 0>>

\* the code words of events 1..k, concatenated in processing order
RECURSIVE EventBits(_, _)
EventBits(h, k) == IF k = 0 THEN <<>> ELSE EventBits(h, k - 1) \o CodeWord(h[k])

\* control bytes 1..n read most significant bit first, concatenated
RECURSIVE ControlBits(_, _)
ControlBits(c, n) == IF n = 0 THEN <<>> ELSE ControlBits(c, n - 1) \o ToBits(c[n], 8)

\* a 4-bit code that arrived with 6 bits pending
Straddles(h, k) == IsModifyCode(h[k]) /\ BitsBefore(h, k) % 8 = 6

\* C11: the emitted control bytes, read MSB first in emission order, are the
\* concatenation of the code words of all processed bytes, real and implicit
\* (with the bits still pending appended while the pass runs); a 4-bit code
\* arriving with 6 bits pending leaves its tag 01 in the low two bits of the
\* emitted control byte and its index as the top two bits of the next one.
C11_ControlBytesAreCodeBitstream ==
    ~WriteFailed =>
        /\ ControlBits(ctls, NumFlushed) \o ToBits(control, bits)
              = EventBits(hist, Len(hist))
        /\ (pc = "done" =>
              /\ NumFlushed = Len(ctls)
              /\ ControlBits(ctls, Len(ctls)) = EventBits(hist, Len(hist)))
        /\ \A k \in 1..Len(hist) :
              Straddles(hist, k) =>
                 LET r == RecordOf(hist, k)
                 IN /\ (Len(ctls) >= r => ctls[r] % 4 = 1)
                    /\ (Len(ctls) >= r + 1 => ctls[r + 1] \div 64 = hist[k].code - 4)
                    /\ ((k = Len(hist) /\ pc = "loop") =>
                          bits = 2 /\ control = hist[k].code - 4)

C11_Witness ==
    /\ pc = "done"
    /\ Len(ctls) = 2
    /\ \E k \in 1..Len(hist) :
          /\ Straddles(hist, k)
          /\ hist[k].code \in {5, 6, 7}
          /\ ctls[2] \div 64 = hist[k].code - 4

----------------------------------------------------------------------------
\* the last step taken was a flush: the last event completed control byte
\* number Len(ctls) and the loop is at its top again
JustFlushed ==
    /\ pc = "loop"
    /\ ctls # <<>>
    /\ hist # <<>>
    /\ BitsBefore(hist, Len(hist)) < 8 * Len(ctls)

\* C12: every processed byte adds exactly 2 or exactly 4 pending bits before
\* the flush check; the count is always even, in {0,2,4,6} at the top of the
\* loop, at most 10 at the flush check, 0 or 2 right after a flush, and right
\* after a flush the accumulator is below 2^count.
C12_PendingBitCount ==
    /\ bits \in {0, 2, 4, 6, 8, 10}
    /\ \A k \in 1..Len(hist) : hist[k].nbits \in {2, 4}
    /\ (pc \in {"loop", "end", "done"} => bits \in {0, 2, 4, 6})
    /\ (pc = "check" => bits >= LastEvent.nbits /\ bits <= 10)
    /\ (JustFlushed => bits \in {0, 2} /\ control < 2 ^ bits)
    /\ control < 2 ^ bits
    /\ (pc \in {"loop", "check", "end", "done"} =>
          bits = BitsBefore(hist, Len(hist) + 1) - 8 * Len(ctls))

C12_Witness ==
    /\ JustFlushed
    /\ bits = 2
    /\ control \in {1, 2, 3}
    /\ LastEvent.nbits = 4

----------------------------------------------------------------------------
\* C13: the literal queue never holds more than 4 bytes, hence never more
\* than its capacity of 8 (no write past the end of literals), and it is
\* empty immediately after every flush.
C13_LiteralQueueBounded ==
    /\ Len(literals) <= 4
    /\ Len(literals) <= LiteralsCap
    /\ 2 * Len(literals) <= bits
    /\ (JustFlushed => literals = <<>>)

C13_Witness ==
    /\ pc = "check"
    /\ bits = 8
    /\ Len(literals) = 4
    /\ size = 4
    /\ \A k \in 1..4 : literals[k] = source[k]

----------------------------------------------------------------------------
\* C14: while prev1 is unset (the first processed byte) no byte value equals
\* an unset slot and none matches a prediction derived from the unset prev1:
\* the first processed byte is always a literal, never a repeat or a
\* predicted-transform.
C14_FirstByteIsLiteral ==
    hist # <<>> =>
        /\ hist[1].p0 = Unset /\ hist[1].p1 = Unset
        /\ hist[1].byte # hist[1].p0 /\ hist[1].byte # hist[1].p1
        /\ ~IsRepeatCode(hist[1])
        /\ ~IsModifyCode(hist[1])
        /\ IsLiteralCode(hist[1]) /\ hist[1].queued = 1

----------------------------------------------------------------------------
(* The tail: implicit zero bytes processed after the trimmed input *)

\* event k is an implicit zero
Implicit(k) == ~hist[k].real

\* event k is the first implicit zero
FirstImplicit(k) == Implicit(k) /\ (k = 1 \/ hist[k - 1].real)

NumImplicit == Cardinality({k \in 1..Len(hist) : Implicit(k)})

\* C15 (as claimed): every implicit zero byte is classified as a repeat or a
\* predicted-transform, never as a literal, so the tail never queues or
\* writes a literal 0x00 that was not in the input.
C15_TailNeverLiteral ==
    \A k \in 1..Len(hist) :
        Implicit(k) => ~IsLiteralCode(hist[k]) /\ hist[k].queued = 0

\* C15 (amended): every implicit zero byte after the first is a repeat of
\* prev1 and queues nothing; the first implicit zero is a repeat or a
\* predicted-transform unless zero equals neither slot and no prediction of
\* prev1, and then it is a literal: one 0x00 is queued, and no more than one
\* in a pass.
C15_TailLiteralOnlyFirstZero ==
    /\ \A k \in 1..Len(hist) :
          /\ Implicit(k) => hist[k].byte = 0 /\ k > size
          /\ (Implicit(k) /\ ~FirstImplicit(k)) =>
                hist[k].nbits = 2 /\ hist[k].code = 3 /\ hist[k].queued = 0
          /\ FirstImplicit(k) =>
                /\ hist[k].p1 \in 1..255
                /\ (IsLiteralCode(hist[k]) /\ hist[k].queued = 1) <=>
                      /\ hist[k].p0 # 0
                      /\ \A i \in 0..3 : Prediction(hist[k].p1, i) # 0
                /\ ~IsLiteralCode(hist[k]) =>
                      hist[k].queued = 0
                         /\ (IsRepeatCode(hist[k]) \/ IsModifyCode(hist[k]))
    /\ Cardinality({k \in 1..Len(hist) : Implicit(k) /\ hist[k].queued = 1}) <= 1

C15_Witness ==
    /\ pc = "done"
    /\ hist # <<>>
    /\ hist[1].p1 = Unset /\ IsLiteralCode(hist[1])
    /\ \E k \in 2..Len(hist) :
          /\ FirstImplicit(k) /\ IsLiteralCode(hist[k])
          /\ hist[k].p0 \in 1..255
    /\ NumImplicit >= 2
    /\ out[Len(out) - 1] = 0

----------------------------------------------------------------------------
\* C16: after every processed byte, real or implicit, whichever branch was
\* taken, prev1 is the byte just processed and prev0 the previous prev1; from
\* the third processed byte on both slots hold the two most recently
\* processed bytes and neither is unset.
C16_PredictorUpdate ==
    /\ hist = <<>> => (prev[0] = Unset /\ prev[1] = Unset)
    /\ hist # <<>> =>
          /\ prev[1] = LastEvent.byte
          /\ prev[0] = LastEvent.p1
    /\ \A k \in 1..Len(hist) :
          /\ hist[k].p1 = (IF k >= 2 THEN hist[k - 1].byte ELSE Unset)
          /\ hist[k].p0 = (IF k >= 3 THEN hist[k - 2].byte ELSE Unset)
          /\ (k >= 3 => hist[k].p0 \in 0..255 /\ hist[k].p1 \in 0..255)
    /\ \A k \in 1..Len(hist) :
          hist[k].byte = (IF k <= size THEN source[k] ELSE 0)

C16_Witness ==
    /\ pc = "check"
    /\ Len(hist) >= 4
    /\ Implicit(Len(hist))
    /\ {IsLiteralCode(hist[k]) : k \in 1..Len(hist)} = {TRUE, FALSE}
    /\ \E k \in 1..Len(hist) : IsModifyCode(hist[k])
    /\ \E k \in 1..Len(hist) : IsRepeatCode(hist[k])
    /\ prev[0] # prev[1]

----------------------------------------------------------------------------
\* control bytes completed before the first implicit zero was processed
FlushedBeforeTail ==
    IF \E k \in 1..Len(hist) : FirstImplicit(k)
    THEN BitsBefore(hist, CHOOSE k \in 1..Len(hist) : FirstImplicit(k)) \div 8
    ELSE Len(ctls)

\* C17: the tail is bounded: at most 4 implicit zero bytes are processed
\* after the trimmed input is exhausted, every implicit zero after the first
\* is encoded as repeat-prev1 (11), and at most 2 control bytes are emitted
\* during the tail.
C17_TailBounded ==
    /\ NumImplicit <= 4
    /\ \A k \in 2..Len(hist) :
          (Implicit(k) /\ Implicit(k - 1)) =>
              /\ hist[k].byte = hist[k].p1
              /\ CodeWord(hist[k]) = <<1, 1>>
              /\ hist[k].nbits = 2 /\ hist[k].code = 3
    /\ Len(ctls) - FlushedBeforeTail <= 2
    /\ (NumImplicit > 0 => pos = size)
    /\ (pc \in {"end", "done"} /\ NumImplicit > 0 => Len(ctls) - FlushedBeforeTail >= 1)

C17_Witness ==
    /\ pc = "done"
    /\ NumImplicit = 4
    /\ Len(ctls) - FlushedBeforeTail = 2

----------------------------------------------------------------------------
(* The run of main on a file as a function of the file's bytes, every write
   succeeding: the output stream and the way the process ends *)

\* lines 73-138: the loop from position p on, then the end byte
RECURSIVE EncodeLoop(_, _, _, _)
EncodeLoop(src, n, p, st) ==
    IF p = n /\ st.bits = 0
    THEN [out |-> Append(st.out, 1), status |-> "EXIT_SUCCESS"]
    ELSE LET byte == IF p = n THEN 0 ELSE src[p + 1]
             np == IF p = n THEN p ELSE p + 1
             i == FindOption(byte, opts(ToU8(st.prev[1])))
             nbits == IF IsRepeat(byte, st.prev) THEN st.bits + 2
                      ELSE IF i < 4 THEN st.bits + 4 ELSE st.bits + 2
             nctl == IF IsRepeat(byte, st.prev)
                     THEN RepeatControl(byte, st.prev, st.control)
                     ELSE IF i < 4 THEN ModifyControl(st.control, i)
                     ELSE LiteralControl(st.control)
             nlit == IF ~IsRepeat(byte, st.prev) /\ i = 4
                     THEN Append(st.literals, byte) ELSE st.literals
             npv == UpdatePrev(st.prev, byte)
         IN IF nbits < 8
            THEN EncodeLoop(src, n, np,
                            [literals |-> nlit, bits |-> nbits, control |-> nctl,
                             prev |-> npv, out |-> st.out])
            ELSE IF Outctl(nctl, nbits) = 1
            THEN [out |-> st.out, status |-> "SIGABRT"]
            ELSE EncodeLoop(src, n, np,
                            [literals |-> <<>>, bits |-> nbits - 8,
                             control |-> nctl % (2 ^ (nbits - 8)), prev |-> npv,
                             out |-> st.out \o <<Outctl(nctl, nbits)>> \o nlit])

\* lines 54-138 for a file whose bytes are f
Encode(f) ==
    LET src == SubSeq(f, 1, Fread(Len(f)))
    IN EncodeLoop(src, TrimSize(src, Len(src)), 0,
                  [literals |-> <<>>, bits |-> 0, control |-> 0,
                   prev |-> [i \in {0, 1} |-> Unset], out |-> <<>>])

\* k zero bytes
Zeros(k) == [j \in 1..k |-> 0]

\* the run has ended, and not by a failed fopen or write
RunEnded == pc = "done" \/ (pc = "exit" /\ status = "SIGABRT")

\* C18: the output does not depend on trailing zero bytes of the input: for
\* every byte sequence x and every k such that x followed by k zero bytes
\* fits in the buffer, encoding x followed by k zeros gives byte for byte the
\* output of encoding x.
C18_TrailingZerosIgnored ==
    RunEnded =>
        /\ [out |-> out, status |-> status] = Encode(file)
        /\ \A k \in 1..(SourceCap - Len(file)) :
              Encode(file \o Zeros(k)) = Encode(file)
        /\ Encode(SubSeq(file, 1, size)) = Encode(file)

C18_Witness ==
    /\ pc = "done"
    /\ size >= 1
    /\ Len(file) - size >= 2
    /\ Len(out) >= 4
    /\ out = Encode(SubSeq(file, 1, size)).out
====
